---- MODULE Spec2Model ----
(***************************************************************************)
(* MoonTVPlus: the danmaku filter config service (route.ts) and the        *)
(* private library browsing controller (private-library/page.tsx).         *)
(*                                                                         *)
(* Part I models the two HTTP handlers GET and POST of /api/danmaku-filter *)
(* with the JavaScript coercions they apply to a request body.             *)
(* Part II models the React component PrivateLibraryPage: its state, its   *)
(* refs, its effects in declaration order and the network requests they    *)
(* start.                                                                  *)
(***************************************************************************)
EXTENDS Integers, Sequences, FiniteSets, TLC

(***************************************************************************)
(* Bounds of the model.                                                    *)
(***************************************************************************)
\* longest `rules` array of a request body
MaxRules == 2
\* longest user list of the admin configuration
MaxUsers == 1

(***************************************************************************)
(* JavaScript values, as far as JSON can carry them.  Every value is a     *)
(* record of the same shape: t is the typeof tag, s the payload of a       *)
(* string, n the payload of a number (0/1 for a boolean), a the elements   *)
(* of an array of numbers.                                                 *)
(***************************************************************************)
JUndef == [t |-> "undefined", s |-> "", n |-> 0, a |-> <<>>]
JNull == [t |-> "null", s |-> "", n |-> 0, a |-> <<>>]
JStr(str) == [t |-> "string", s |-> str, n |-> 0, a |-> <<>>]
JNum(num) == [t |-> "number", s |-> "", n |-> num, a |-> <<>>]
JBool(b) == [t |-> "boolean", s |-> "", n |-> IF b THEN 1 ELSE 0, a |-> <<>>]
JObj == [t |-> "object", s |-> "", n |-> 0, a |-> <<>>]
JArr(elems) == [t |-> "array", s |-> "", n |-> 0, a |-> elems]

\* ToBoolean: what `!v`, `v || d` and Boolean(v) test
Truthy(v) ==
  CASE v.t = "undefined" -> FALSE
    [] v.t = "null" -> FALSE
    [] v.t = "boolean" -> v.n = 1
    [] v.t = "number" -> v.n # 0
    [] v.t = "string" -> v.s # ""
    [] OTHER -> TRUE

Digit(d) == <<"0", "1", "2", "3", "4", "5", "6", "7", "8", "9">>[d + 1]

RECURSIVE NatToString(_)
NatToString(num) ==
  IF num < 10 THEN Digit(num)
  ELSE NatToString(num \div 10) \o Digit(num % 10)

\* Number.prototype.toString for the integers a body can carry
NumToString(num) ==
  IF num < 0 THEN "-" \o NatToString(0 - num) ELSE NatToString(num)

\* Array.prototype.join(",") over an array of numbers
RECURSIVE JoinNums(_)
JoinNums(elems) ==
  IF elems = <<>> THEN ""
  ELSE IF Len(elems) = 1 THEN NumToString(elems[1])
  ELSE NumToString(elems[1]) \o "," \o JoinNums(Tail(elems))

\* String(v)
JSString(v) ==
  CASE v.t = "undefined" -> "undefined"
    [] v.t = "null" -> "null"
    [] v.t = "boolean" -> (IF v.n = 1 THEN "true" ELSE "false")
    [] v.t = "number" -> NumToString(v.n)
    [] v.t = "string" -> v.s
    [] v.t = "array" -> JoinNums(v.a)
    [] OTHER -> "[object Object]"

\* `v || d`
OrElse(v, d) == IF Truthy(v) THEN v ELSE d

(***************************************************************************)
(* An element of the `rules` array: any JSON value.  t is its typeof tag;  *)
(* an object carries its four properties, a missing one being undefined.   *)
(***************************************************************************)
RuleObj(k, ty, en, id) ==
  [t |-> "object", keyword |-> k, type |-> ty, enabled |-> en, id |-> id]

RulePrim(tag) ==
  [t |-> tag, keyword |-> JUndef, type |-> JUndef, enabled |-> JUndef,
   id |-> JUndef]

\* rule.<name>: a TypeError on null, undefined on a primitive
PropThrows(rule) == rule.t \in {"null", "undefined"}

Prop(rule, name) ==
  IF rule.t # "object" THEN JUndef
  ELSE CASE name = "keyword" -> rule.keyword
         [] name = "type" -> rule.type
         [] name = "enabled" -> rule.enabled
         [] OTHER -> rule.id

(***************************************************************************)
(* PART I.  /api/danmaku-filter (src/app/api/danmaku-filter/route.ts)      *)
(***************************************************************************)
VARIABLES
  Users,              \* config.UserConfig.Users: records {username, banned}
  ADMIN_USERNAME,     \* process.env.ADMIN_USERNAME
  db,                 \* the config store: username -> stored filter config
  req,                \* the request being answered
  resp,               \* its response
  dbCalls,            \* the store calls made while answering it
  lastPost            \* history: the rules of each user's last POST answered 200

svcVars == <<Users, ADMIN_USERNAME, db, req, resp, dbCalls, lastPost>>

\* usernames that may appear in the user list, and in a session cookie
SessionNames == {"admin", "alice"}

\* getAuthInfoFromCookie(request): null, or a record with a username
NoAuthInfo == [present |-> FALSE, username |-> ""]
AuthInfos ==
  {NoAuthInfo} \cup [present : {TRUE}, username : SessionNames \cup {""}]

\* the user lists of the admin configuration: usernames are unique
UserLists ==
  {us \in UNION {[1..k -> [username : SessionNames, banned : BOOLEAN]] :
                   k \in 0..MaxUsers} :
     \A i, j \in DOMAIN us : us[i].username = us[j].username => i = j}

\* elements a `rules` array is drawn from
RawRules ==
  { RuleObj(JStr("ad"), JStr("regex"), JBool(TRUE), JUndef),
    RuleObj(JNum(5), JStr("other"), JNum(1), JStr("r1")),
    RulePrim("null") }

\* the `rules` arrays of the bodies: up to MaxRules distinct elements
RawRuleLists ==
  {rs \in UNION {[1..k -> RawRules] : k \in 0..MaxRules} :
     \A i, j \in DOMAIN rs : rs[i] = rs[j] => i = j}

\* request bodies: text that is no JSON, JSON that is no object, objects
\* whose `rules` is missing or no array, objects whose `rules` is an array
NoRules == [t |-> "undefined", elems |-> <<>>]
BadJson == [parses |-> FALSE, v |-> JUndef, rules |-> NoRules]
PrimBody(v) == [parses |-> TRUE, v |-> v, rules |-> NoRules]
ObjBody(rs) == [parses |-> TRUE, v |-> JObj, rules |-> rs]

Bodies ==
  {BadJson}
    \cup {PrimBody(v) : v \in {JNull, JNum(7)}}
    \cup {ObjBody([t |-> tag, elems |-> <<>>]) : tag \in {"undefined", "string"}}
    \cup {ObjBody([t |-> "array", elems |-> rs]) : rs \in RawRuleLists}

\* NextResponse.json(...)
JsonError(msg, status) ==
  [status |-> status, error |-> msg, hasRules |-> FALSE, rules |-> <<>>,
   success |-> FALSE]
JsonRules(rs) ==
  [status |-> 200, error |-> "", hasRules |-> TRUE, rules |-> rs,
   success |-> FALSE]
JsonSuccess ==
  [status |-> 200, error |-> "", hasRules |-> FALSE, rules |-> <<>>,
   success |-> TRUE]
NoResponse ==
  [status |-> 0, error |-> "", hasRules |-> FALSE, rules |-> <<>>,
   success |-> FALSE]

\* Users.find((u) => u.username === name): the first match, 0 for undefined
Find(users, name) ==
  IF \E i \in DOMAIN users : users[i].username = name
  THEN CHOOSE i \in DOMAIN users :
         /\ users[i].username = name
         /\ \A j \in 1..(i - 1) : users[j].username # name
  ELSE 0

\* the store, by its contract: a config or null
NoConfig == [present |-> FALSE, rules |-> <<>>]
getDanmakuFilterConfig(store, username) == store[username]
setDanmakuFilterConfig(store, username, config) ==
  [store EXCEPT ![username] = [present |-> TRUE, rules |-> config.rules]]

\* GETGate with the ban check also applied to the admin
GETGateBansAdmin(authInfo) ==
  IF ~authInfo.present \/ authInfo.username = "" THEN "NotLoggedIn"
  ELSE LET user == Find(Users, authInfo.username)
       IN IF authInfo.username # ADMIN_USERNAME /\ user = 0
          THEN "UserNotFound"
          ELSE IF user # 0 /\ Users[user].banned THEN "UserBanned"
          ELSE "pass"

\* GET, lines 14-31: the response that ends the request, or "pass"
GETGate(authInfo) ==
  IF ~authInfo.present \/ authInfo.username = "" THEN "NotLoggedIn"
  ELSE IF authInfo.username # ADMIN_USERNAME
    THEN LET user == Find(Users, authInfo.username)
         IN IF user = 0 THEN "UserNotFound"
            ELSE IF Users[user].banned THEN "UserBanned"
            ELSE "pass"
    ELSE "pass"

\* POSTGate without the ban check
POSTGateNoBanCheck(authInfo) ==
  IF ~authInfo.present \/ authInfo.username = "" THEN "NotLoggedIn"
  ELSE IF authInfo.username # ADMIN_USERNAME
    THEN IF Find(Users, authInfo.username) = 0 THEN "UserNotFound"
         ELSE "pass"
    ELSE "pass"

\* POST, lines 53-70
POSTGate(authInfo) ==
  IF ~authInfo.present \/ authInfo.username = "" THEN "NotLoggedIn"
  ELSE IF authInfo.username # ADMIN_USERNAME
    THEN LET user == Find(Users, authInfo.username)
         IN IF user = 0 THEN "UserNotFound"
            ELSE IF Users[user].banned THEN "UserBanned"
            ELSE "pass"
    ELSE "pass"

\* GETResponse answering 404 when nothing is stored
GETResponseNotFound(filterConfig) ==
  IF ~filterConfig.present THEN JsonError("NotFound", 404)
  ELSE JsonRules(filterConfig.rules)

\* GET, lines 36-41
GETResponse(filterConfig) ==
  IF ~filterConfig.present THEN JsonRules(<<>>)
  ELSE JsonRules(filterConfig.rules)

\* config.rules of a parsed body: undefined on anything but an object
ConfigRules(config) == IF config.v.t = "object" THEN config.rules ELSE NoRules

\* ConfigMalformed without the Array.isArray test
ConfigMalformedNoArrayTest(config) == ~Truthy(config.v)

\* POST, line 75: !config || !Array.isArray(config.rules)
ConfigMalformed(config) ==
  ~Truthy(config.v) \/ ConfigRules(config).t # "array"

\* ValidKeyword without the `|| ''` default
ValidKeywordNoDefault(rule) == JSString(Prop(rule, "keyword"))

\* POST, line 81
ValidKeyword(rule) == JSString(OrElse(Prop(rule, "keyword"), JStr("")))

\* ValidType keeping any string
ValidTypeAnyString(rule) ==
  LET ty == Prop(rule, "type")
  IN IF ty.t = "string" THEN ty.s ELSE "normal"

\* POST, line 82
ValidType(rule) ==
  LET ty == Prop(rule, "type")
  IN IF ty = JStr("regex") \/ ty = JStr("normal") THEN ty.s ELSE "normal"

\* POST, line 83
ValidEnabled(rule) == Truthy(Prop(rule, "enabled"))

\* POST, line 84
ValidId(rule) == OrElse(Prop(rule, "id"), JUndef)

\* POST, lines 80-85: the callback of map
ValidateRule(rule) ==
  [keyword |-> ValidKeyword(rule), type |-> ValidType(rule),
   enabled |-> ValidEnabled(rule), id |-> ValidId(rule)]

\* POST, lines 80-85: config.rules.map(...)
validatedRules(rules) == [i \in DOMAIN rules |-> ValidateRule(rules[i])]

\* validatedConfig merging the new rules into the stored ones
validatedConfigMerged(username, rules) ==
  [rules |-> db[username].rules \o validatedRules(rules)]

\* POST, lines 87-89: the config handed to the store
validatedConfig(username, rules) == [rules |-> validatedRules(rules)]

\* the map throws a TypeError on the first null element
MapThrows(rules) == \E i \in DOMAIN rules : PropThrows(rules[i])

\* POST, lines 72-100, past the gate: <<response, store calls, store>>
POSTBody(username, body) ==
  IF ~body.parses THEN <<JsonError("SaveFailed", 500), <<>>, db>>
  ELSE IF ConfigMalformed(body)
    THEN <<JsonError("BadConfigFormat", 400), <<>>, db>>
  ELSE IF MapThrows(body.rules.elems)
    THEN <<JsonError("SaveFailed", 500), <<>>, db>>
  ELSE <<JsonSuccess, <<[op |-> "set", username |-> username]>>,
         setDanmakuFilterConfig(db, username,
                                validatedConfig(username, body.rules.elems))>>

NoBody == BadJson

SvcInit ==
  /\ Users \in UserLists
  /\ ADMIN_USERNAME = "admin"
  /\ db = [u \in SessionNames |-> NoConfig]
  /\ req = [method |-> "none", authInfo |-> NoAuthInfo, body |-> NoBody]
  /\ resp = NoResponse
  /\ dbCalls = <<>>
  /\ lastPost = [u \in SessionNames |-> [posted |-> FALSE, rules |-> <<>>]]

\* export async function GET(request)
GET(authInfo) ==
  /\ req' = [method |-> "GET", authInfo |-> authInfo, body |-> NoBody]
  /\ LET gate == GETGate(authInfo)
     IN IF gate # "pass"
        THEN /\ resp' = JsonError(gate, 401)
             /\ dbCalls' = <<>>
        ELSE /\ resp' =
                  GETResponse(getDanmakuFilterConfig(db, authInfo.username))
             /\ dbCalls' = <<[op |-> "get", username |-> authInfo.username]>>
  /\ UNCHANGED <<Users, ADMIN_USERNAME, db, lastPost>>

\* export async function POST(request)
POST(authInfo, body) ==
  /\ req' = [method |-> "POST", authInfo |-> authInfo, body |-> body]
  /\ LET gate == POSTGate(authInfo)
     IN IF gate # "pass"
        THEN /\ resp' = JsonError(gate, 401)
             /\ dbCalls' = <<>>
             /\ UNCHANGED <<db, lastPost>>
        ELSE LET out == POSTBody(authInfo.username, body)
             IN /\ resp' = out[1]
                /\ dbCalls' = out[2]
                /\ db' = out[3]
                /\ lastPost' =
                     IF out[1].status = 200
                     THEN [lastPost EXCEPT ![authInfo.username] =
                             [posted |-> TRUE, rules |-> body.rules.elems]]
                     ELSE lastPost
  /\ UNCHANGED <<Users, ADMIN_USERNAME>>

DoGET == \E authInfo \in AuthInfos : GET(authInfo)
DoPOST == \E authInfo \in AuthInfos, body \in Bodies : POST(authInfo, body)

SvcNext == DoGET \/ DoPOST

(***************************************************************************)
(* Rule normalization on its own: one element of a `rules` array, drawn    *)
(* from the JSON values, put through the callback of lines 80-85.          *)
(***************************************************************************)
VARIABLES
  rule,               \* the element of config.rules
  validated,          \* the element of validatedRules made from it
  normPc              \* "input", then "stored" or "threw"

normVars == <<rule, validated, normPc>>

KeywordValues ==
  {JUndef, JNull, JStr(""), JStr("ad"), JNum(0), JNum(5), JNum(12),
   JBool(FALSE), JBool(TRUE), JObj, JArr(<<>>), JArr(<<1, 2>>)}
TypeValues == {JUndef, JStr("regex"), JStr("normal"), JStr("other"), JNum(1)}
EnabledValues == {JUndef, JBool(TRUE), JBool(FALSE), JStr("yes")}
IdValues == {JUndef, JStr("r1"), JStr("")}

AllRawRules ==
  {RuleObj(k, ty, en, id) : k \in KeywordValues, ty \in TypeValues,
                            en \in EnabledValues, id \in IdValues}
    \cup {RulePrim(tag) : tag \in {"null", "number", "string", "boolean", "array"}}

NoRule == [keyword |-> "", type |-> "", enabled |-> FALSE, id |-> JUndef]

NormInit ==
  /\ rule \in AllRawRules
  /\ validated = NoRule
  /\ normPc = "input"

NormIdle ==
  /\ rule = RulePrim("null")
  /\ validated = NoRule
  /\ normPc = "idle"

\* POST, lines 80-85, on one element
Validate ==
  /\ normPc = "input"
  /\ IF PropThrows(rule)
     THEN /\ normPc' = "threw"
          /\ UNCHANGED validated
     ELSE /\ normPc' = "stored"
          /\ validated' = ValidateRule(rule)
  /\ UNCHANGED rule

NormNext == Validate

(***************************************************************************)
(* PART II.  PrivateLibraryPage (src/app/private-library/page.tsx)         *)
(*                                                                         *)
(* Strings that the page takes apart or puts together (the `source` URL    *)
(* parameter, sourceType, embyKey) are sequences of characters.  An        *)
(* undefined, null or empty string is <<>>: the page tests all three with  *)
(* `!x` only.                                                              *)
(***************************************************************************)
\* most pages the intersection observer asks for
MaxPage == 3
\* most items of one page of a list response
MaxItems == 1

S_openlist == <<"o", "p", "e", "n", "l", "i", "s", "t">>
S_emby == <<"e", "m", "b", "y">>
Key1 == <<"k", "1">>
Key2 == <<"k", "2">>
NoKey == <<>>

\* String.prototype.includes for one character
Includes(str, ch) == \E i \in DOMAIN str : str[i] = ch

\* the index of the first ch of str; Len(str) + 1 when there is none
RECURSIVE IndexOf(_, _, _)
IndexOf(str, ch, from) ==
  IF from > Len(str) THEN Len(str) + 1
  ELSE IF str[from] = ch THEN from
  ELSE IndexOf(str, ch, from + 1)

\* const [type, key] = sourceParam.split(':'): the first two parts
SplitFirstTwo(str, ch) ==
  LET i == IndexOf(str, ch, 1)
      j == IndexOf(str, ch, i + 1)
  IN [type |-> SubSeq(str, 1, i - 1), key |-> SubSeq(str, i + 1, j - 1)]

\* parseSourceParam taking the whole parameter as the source type
parseSourceParamWhole(sourceParam) ==
  IF sourceParam = <<>> THEN [sourceType |-> S_openlist, embyKey |-> NoKey]
  ELSE [sourceType |-> sourceParam, embyKey |-> NoKey]

\* parseSourceParam, lines 52-61
parseSourceParam(sourceParam) ==
  IF sourceParam = <<>> THEN [sourceType |-> S_openlist, embyKey |-> NoKey]
  ELSE IF Includes(sourceParam, ":")
    THEN LET parts == SplitFirstTwo(sourceParam, ":")
         IN [sourceType |-> parts.type, embyKey |-> parts.key]
  ELSE [sourceType |-> sourceParam, embyKey |-> NoKey]

\* line 139: the source parameter of the URL for an Emby instance
NavSource(key) == S_emby \o <<":">> \o key

\* line 554: the source parameter handed to a VideoCard
CardSource(key) == S_emby \o <<"_">> \o key

(***************************************************************************)
(* The source parameter on its own: a key is encoded in one of the two     *)
(* forms and the result is parsed.                                         *)
(***************************************************************************)
\* keys are strings of at most this many characters
MaxKeyLen == 2

KeyChars == {"k", "1", ":", "_"}
Keys == UNION {[1..n -> KeyChars] : n \in 0..MaxKeyLen}

VARIABLES
  keyIn,              \* the embyKey encoded
  encoding,           \* "nav" (line 139) or "card" (line 554)
  sourceParam,        \* the encoded parameter
  parsedOut,          \* parseSourceParam(sourceParam)
  parsePc             \* "input", "encoded", "parsed"

parseVars == <<keyIn, encoding, sourceParam, parsedOut, parsePc>>

NotParsed == [sourceType |-> <<>>, embyKey |-> NoKey]

ParseInit ==
  /\ keyIn \in Keys
  /\ encoding = "none"
  /\ sourceParam = <<>>
  /\ parsedOut = NotParsed
  /\ parsePc = "input"

ParseIdle ==
  /\ keyIn = <<>>
  /\ encoding = "none"
  /\ sourceParam = <<>>
  /\ parsedOut = NotParsed
  /\ parsePc = "idle"

EncodeNav ==
  /\ parsePc = "input"
  /\ encoding' = "nav"
  /\ sourceParam' = NavSource(keyIn)
  /\ parsePc' = "encoded"
  /\ UNCHANGED <<keyIn, parsedOut>>

EncodeCard ==
  /\ parsePc = "input"
  /\ encoding' = "card"
  /\ sourceParam' = CardSource(keyIn)
  /\ parsePc' = "encoded"
  /\ UNCHANGED <<keyIn, parsedOut>>

Parse ==
  /\ parsePc = "encoded"
  /\ parsedOut' = parseSourceParam(sourceParam)
  /\ parsePc' = "parsed"
  /\ UNCHANGED <<keyIn, encoding, sourceParam>>

ParseNext == EncodeNav \/ EncodeCard \/ Parse

VARIABLES
  runtimeConfig,        \* window.RUNTIME_CONFIG: OPENLIST_ENABLED, EMBY_ENABLED
  searchParams,         \* useSearchParams(): source, view
  pendingUrl,           \* the URL of the last router.replace, not yet shown
  mounted,              \* the component has rendered and run its effects
  sourceType, embyKey, embySourceOptions, videos, loading, loadingMore,
  error, page, hasMore, embyViews, selectedView, loadingViews,  \* useState
  isFetchingRef, isInitializedRef, hasRestoredViewRef,          \* useRef
  observing,            \* the observer of line 368 watches the rendered target
  listReqs,             \* fetches of fetchVideos awaiting their response
  sourcesReqs,          \* fetches of fetchEmbySources awaiting theirs
  viewsReqs,            \* fetches of fetchEmbyViews awaiting theirs
  fetchLog,             \* history: the pages applied since the list was emptied
  lastApplied,          \* history: the last list response that changed state,
                        \* and whether the last step was the completion of
                        \* a cancelled request
  viewsSucceeded        \* history: a views fetch has succeeded

libVars ==
  <<runtimeConfig, searchParams, pendingUrl, mounted, sourceType, embyKey,
    embySourceOptions, videos, loading, loadingMore, error, page, hasMore,
    embyViews, selectedView, loadingViews, isFetchingRef, isInitializedRef,
    hasRestoredViewRef, observing, listReqs, sourcesReqs, viewsReqs,
    fetchLog, lastApplied, viewsSucceeded>>

\* the component and what it talks to, as one record
World ==
  [runtimeConfig |-> runtimeConfig, searchParams |-> searchParams,
   pendingUrl |-> pendingUrl, mounted |-> mounted,
   sourceType |-> sourceType, embyKey |-> embyKey,
   embySourceOptions |-> embySourceOptions, videos |-> videos,
   loading |-> loading, loadingMore |-> loadingMore, error |-> error,
   page |-> page, hasMore |-> hasMore, embyViews |-> embyViews,
   selectedView |-> selectedView, loadingViews |-> loadingViews,
   isFetchingRef |-> isFetchingRef, isInitializedRef |-> isInitializedRef,
   hasRestoredViewRef |-> hasRestoredViewRef, observing |-> observing,
   listReqs |-> listReqs, sourcesReqs |-> sourcesReqs,
   viewsReqs |-> viewsReqs, fetchLog |-> fetchLog,
   lastApplied |-> [lastApplied EXCEPT !.cancelledLast = FALSE],
   viewsSucceeded |-> viewsSucceeded]

Commit(w) ==
  /\ runtimeConfig' = w.runtimeConfig
  /\ searchParams' = w.searchParams
  /\ pendingUrl' = w.pendingUrl
  /\ mounted' = w.mounted
  /\ sourceType' = w.sourceType
  /\ embyKey' = w.embyKey
  /\ embySourceOptions' = w.embySourceOptions
  /\ videos' = w.videos
  /\ loading' = w.loading
  /\ loadingMore' = w.loadingMore
  /\ error' = w.error
  /\ page' = w.page
  /\ hasMore' = w.hasMore
  /\ embyViews' = w.embyViews
  /\ selectedView' = w.selectedView
  /\ loadingViews' = w.loadingViews
  /\ isFetchingRef' = w.isFetchingRef
  /\ isInitializedRef' = w.isInitializedRef
  /\ hasRestoredViewRef' = w.hasRestoredViewRef
  /\ observing' = w.observing
  /\ listReqs' = w.listReqs
  /\ sourcesReqs' = w.sourcesReqs
  /\ viewsReqs' = w.viewsReqs
  /\ fetchLog' = w.fetchLog
  /\ lastApplied' = w.lastApplied
  /\ viewsSucceeded' = w.viewsSucceeded

NoView == ""
NoUrl == [set |-> FALSE, source |-> <<>>, view |-> NoView]
NothingApplied ==
  [applied |-> FALSE, superseded |-> FALSE, aborted |-> FALSE,
   cancelledLast |-> FALSE]

(***************************************************************************)
(* The effects, in the order the component declares them.  Each takes s,   *)
(* the render whose values its closure holds, and w, the world as the      *)
(* effects before it left it: a state setter writes the next render's      *)
(* state into w, a ref is written at once.                                 *)
(***************************************************************************)
\* InitEffect taking the embyKey of the URL even when it names none
InitEffectKeyOfUrl(s, w) ==
  LET parsed == parseSourceParam(s.searchParams.source)
      w1 == IF ~s.runtimeConfig.OPENLIST_ENABLED /\ s.runtimeConfig.EMBY_ENABLED
            THEN [w EXCEPT !.sourceType = S_emby]
            ELSE IF parsed.sourceType # <<>>
              THEN [w EXCEPT !.sourceType = parsed.sourceType,
                             !.embyKey = parsed.embyKey]
            ELSE w
  IN [w1 EXCEPT !.isInitializedRef = TRUE]

\* lines 88-105
InitEffect(s, w) ==
  LET parsed == parseSourceParam(s.searchParams.source)
      w1 == IF ~s.runtimeConfig.OPENLIST_ENABLED /\ s.runtimeConfig.EMBY_ENABLED
            THEN [w EXCEPT !.sourceType = S_emby]
            ELSE IF parsed.sourceType # <<>>
              THEN [w EXCEPT !.sourceType = parsed.sourceType,
                             !.embyKey = IF parsed.embyKey # <<>>
                                         THEN parsed.embyKey ELSE @]
            ELSE w
  IN [w1 EXCEPT !.isInitializedRef = TRUE]

\* lines 108-129: the fetch keeps the embyKey of the render that started
\* it, of which it reads `!embyKey` only (line 117)
SourcesEffect(s, w) ==
  IF s.sourceType = S_emby
  THEN [w EXCEPT !.sourcesReqs = @ \cup {[noEmbyKey |-> s.embyKey = NoKey]}]
  ELSE w

\* lines 137-146: the query string handed to router.replace
UrlOf(s) ==
  [set |-> TRUE,
   source |-> IF s.sourceType = S_emby /\ s.embyKey # NoKey
                 /\ Len(s.embySourceOptions) > 1
              THEN S_emby \o <<":">> \o s.embyKey
              ELSE s.sourceType,
   view |-> IF s.sourceType = S_emby /\ s.selectedView # "all"
            THEN s.selectedView ELSE NoView]

\* lines 132-149
UrlSyncEffect(s, w) ==
  IF ~w.isInitializedRef THEN w
  ELSE [w EXCEPT !.pendingUrl = UrlOf(s)]

\* ResetSourceEffect without setVideos([])
ResetSourceEffectKeepsList(s, w) ==
  IF ~w.isInitializedRef THEN w
  ELSE [w EXCEPT !.page = 1, !.hasMore = TRUE, !.error = "",
                 !.selectedView = "all", !.loading = FALSE,
                 !.loadingMore = FALSE, !.isFetchingRef = FALSE]

\* lines 152-163
ResetSourceEffect(s, w) ==
  IF ~w.isInitializedRef THEN w
  ELSE [w EXCEPT !.page = 1, !.videos = <<>>, !.hasMore = TRUE, !.error = "",
                 !.selectedView = "all", !.loading = FALSE,
                 !.loadingMore = FALSE, !.isFetchingRef = FALSE,
                 !.fetchLog = <<>>]

\* lines 166-176
ResetViewEffect(s, w) ==
  IF ~w.isInitializedRef THEN w
  ELSE [w EXCEPT !.page = 1, !.videos = <<>>, !.hasMore = TRUE, !.error = "",
                 !.loading = FALSE, !.loadingMore = FALSE,
                 !.isFetchingRef = FALSE, !.fetchLog = <<>>]

\* lines 179-217: the fetch keeps the embyKey and the searchParams of the
\* render that started it; it reads the `view` parameter only while
\* hasRestoredViewRef is unset (line 196), and the ref is never unset again
ViewsEffect(s, w) ==
  IF s.sourceType # S_emby \/ s.embyKey = NoKey THEN w
  ELSE [w EXCEPT !.loadingViews = TRUE,
                 !.viewsReqs =
                   @ \cup {[embyKey |-> s.embyKey,
                            urlView |-> IF w.hasRestoredViewRef THEN NoView
                                        ELSE s.searchParams.view]}]

\* a cancelled request: its fetch rejects with an AbortError, and nothing
\* of the request is read again (lines 320-322, 330), so cancelled requests
\* are kept without the query they were made for
AbortedRequest ==
  [sourceType |-> <<>>, embyKey |-> NoKey, selectedView |-> "", page |-> 0,
   aborted |-> TRUE, current |-> FALSE, superseded |-> TRUE]

\* Abort cancelling nothing
AbortNothing(reqs) == reqs

\* abortControllerRef.current.abort(): the request whose controller the ref
\* holds, if it is still in flight, is cancelled
Abort(reqs) == {IF r.current THEN AbortedRequest ELSE r : r \in reqs}

\* history: a call of fetchVideos supersedes every request before it
Supersede(reqs) == {[r EXCEPT !.superseded = TRUE] : r \in reqs}

\* abortControllerRef.current = abortController, and the request it guards
NewRequest(s, reqs) ==
  {[r EXCEPT !.current = FALSE] : r \in reqs}
    \cup {[sourceType |-> s.sourceType, embyKey |-> s.embyKey,
           selectedView |-> s.selectedView, page |-> s.page,
           aborted |-> FALSE, current |-> TRUE, superseded |-> FALSE]}

\* fetchVideos up to its first await, lines 253-290
FetchVideosStart(s, w) ==
  LET isInitial == s.page = 1
      w0 == [w EXCEPT !.listReqs = Supersede(Abort(@))]
  IN IF s.sourceType = S_openlist /\ ~s.runtimeConfig.OPENLIST_ENABLED
     THEN [w0 EXCEPT !.loading = FALSE]
     ELSE IF s.sourceType = S_emby
             /\ (~s.runtimeConfig.EMBY_ENABLED \/ s.embyKey = NoKey)
     THEN [w0 EXCEPT !.loading = FALSE]
     ELSE [w0 EXCEPT !.listReqs = NewRequest(s, @),
                     !.isFetchingRef = TRUE,
                     !.loading = IF isInitial THEN TRUE ELSE @,
                     !.loadingMore = IF isInitial THEN @ ELSE TRUE,
                     !.error = ""]

\* the cleanup of the fetch effect, lines 344-348
FetchCleanup(w) == [w EXCEPT !.listReqs = Abort(@)]

\* the observed element of line 579 is rendered
TargetRendered(s) == ~s.loading /\ s.videos # <<>>

\* lines 363-388: observe the target if the render put it in the page
ObserverEffect(s, w) == [w EXCEPT !.observing = TargetRendered(s)]

\* the dependency lists of the effects
InitDeps(s) == <<s.searchParams, s.runtimeConfig>>
SourcesDeps(s) == <<s.sourceType>>
UrlSyncDeps(s) ==
  <<s.sourceType, s.embyKey, s.selectedView, Len(s.embySourceOptions)>>
ResetSourceDeps(s) == <<s.sourceType, s.embyKey>>
ResetViewDeps(s) == <<s.selectedView>>
ViewsDeps(s) == <<s.sourceType, s.embyKey>>
FetchDeps(s) ==
  <<s.sourceType, s.embyKey, s.page, s.selectedView, s.runtimeConfig>>
ObserverDeps(s) == <<s.hasMore, s.loadingMore, s.loading, s.page>>

\* what a render reads: the state and the search parameters
Rendered(w) ==
  <<w.searchParams, w.sourceType, w.embyKey, w.embySourceOptions, w.videos,
    w.loading, w.loadingMore, w.error, w.page, w.hasMore, w.embyViews,
    w.selectedView, w.loadingViews>>

(***************************************************************************)
(* One render and its effects.  prev is the render before (first: there is *)
(* none, every effect runs), w the world holding the state to render.      *)
(* React runs the cleanups of the effects whose dependencies changed, then *)
(* these effects in order of declaration.  Then(step, ws) is the step     *)
(* taken from the world the steps before it left.                          *)
(***************************************************************************)
Then(step(_), ws) == {step(x) : x \in ws}

Flush(first, prev, w) ==
  LET s == w
      runs(deps(_)) == first \/ deps(prev) # deps(s)
      c7(x) == IF ~first /\ runs(FetchDeps) THEN FetchCleanup(x) ELSE x
      c8(x) == IF runs(ObserverDeps) THEN [x EXCEPT !.observing = FALSE]
               ELSE [x EXCEPT !.observing = @ /\ TargetRendered(s)]
      e1(x) == IF runs(InitDeps) THEN InitEffect(s, x) ELSE x
      e2(x) == IF runs(SourcesDeps) THEN SourcesEffect(s, x) ELSE x
      e3(x) == IF runs(UrlSyncDeps) THEN UrlSyncEffect(s, x) ELSE x
      e4(x) == IF runs(ResetSourceDeps) THEN ResetSourceEffect(s, x) ELSE x
      e5(x) == IF runs(ResetViewDeps) THEN ResetViewEffect(s, x) ELSE x
      e6(x) == IF runs(ViewsDeps) THEN ViewsEffect(s, x) ELSE x
      e7(x) == IF runs(FetchDeps) THEN FetchVideosStart(s, x) ELSE x
      e8(x) == IF runs(ObserverDeps) THEN ObserverEffect(s, x) ELSE x
  IN CHOOSE last \in
       Then(e8, Then(e7, Then(e6, Then(e5, Then(e4, Then(e3, Then(e2,
         Then(e1, Then(c8, Then(c7, {w})))))))))) : TRUE

\* render, run the effects, and render again while they changed the state
RECURSIVE Settle(_, _, _)
Settle(first, prev, w) ==
  LET again(next) == IF Rendered(next) = Rendered(w) THEN next
                     ELSE Settle(FALSE, w, next)
  IN CHOOSE settled \in Then(again, {Flush(first, prev, w)}) : TRUE

(***************************************************************************)
(* What the page is opened with, and what the servers answer.              *)
(***************************************************************************)
RuntimeConfigs == [OPENLIST_ENABLED : BOOLEAN, EMBY_ENABLED : BOOLEAN]

\* the query strings the page is opened with: no parameter, source=emby,
\* source=emby:k2 with and without view=v2, source=emby_k1
Urls ==
  {[source |-> <<>>, view |-> NoView],
   [source |-> S_emby, view |-> NoView],
   [source |-> S_emby \o <<":">> \o Key2, view |-> NoView],
   [source |-> S_emby \o <<":">> \o Key2, view |-> "v2"],
   [source |-> S_emby \o <<"_">> \o Key1, view |-> NoView]}

\* /api/emby/sources: data.sources, the keys of the configured instances
SourceLists == {<<>>, <<Key1, Key2>>}

\* /api/emby/views: the ids of data.views for an instance
ViewsOf(key) ==
  IF key = Key1 THEN <<"v1", "v2">> ELSE IF key = Key2 THEN <<"v2">> ELSE <<>>

\* the VideoSummary items of data.list for a request: n items of its page
ItemsOf(r, n) ==
  [i \in 1..n |-> [sourceType |-> r.sourceType, embyKey |-> r.embyKey,
                   selectedView |-> r.selectedView, page |-> r.page,
                   idx |-> i]]

\* data.page and data.totalPages of an answer (0: absent): none reported,
\* the total only, the page asked for as the last or with one to follow,
\* the page after the one asked for as the last
PageReports(r) ==
  {<<0, 0>>, <<0, r.page + 1>>, <<r.page, r.page>>, <<r.page, r.page + 1>>,
   <<r.page + 1, r.page + 1>>}

\* the answers to a list request: an empty or a full list of n items with
\* data.page and data.totalPages; a data.error; a status that is not OK or
\* a transport error.  The fetch of a cancelled request rejects with an
\* AbortError and nothing else.
ListOutcomes(r) ==
  IF r.aborted
  THEN {[kind |-> "abort", n |-> 0, dataPage |-> 0, totalPages |-> 0]}
  ELSE {[kind |-> "ok", n |-> n, dataPage |-> pr[1], totalPages |-> pr[2]] :
          n \in {0, MaxItems}, pr \in PageReports(r)}
         \cup [kind : {"error", "fail"}, n : {0}, dataPage : {0},
               totalPages : {0}]

LibInit ==
  /\ runtimeConfig \in RuntimeConfigs
  /\ searchParams \in Urls
  /\ pendingUrl = NoUrl
  /\ mounted = FALSE
  /\ sourceType = S_openlist
  /\ embyKey = NoKey
  /\ embySourceOptions = <<>>
  /\ videos = <<>>
  /\ loading = TRUE
  /\ loadingMore = FALSE
  /\ error = ""
  /\ page = 1
  /\ hasMore = TRUE
  /\ embyViews = <<>>
  /\ selectedView = "all"
  /\ loadingViews = FALSE
  /\ isFetchingRef = FALSE
  /\ isInitializedRef = FALSE
  /\ hasRestoredViewRef = FALSE
  /\ observing = FALSE
  /\ listReqs = {}
  /\ sourcesReqs = {}
  /\ viewsReqs = {}
  /\ fetchLog = <<>>
  /\ lastApplied = NothingApplied
  /\ viewsSucceeded = FALSE

\* an event handler or a continuation left the world as w: React renders
\* and runs the effects until the state is settled
Dispatch(w) ==
  \E start \in {w} : \E settled \in {Settle(FALSE, World, start)} :
    Commit(settled)

\* the user acts once the sources and the views asked for have arrived;
\* list requests may be in flight (this keeps the model finite enough to
\* check: the responses themselves arrive in any order)
Room == sourcesReqs = {} /\ viewsReqs = {}

\* the first render and its effects
Mount ==
  /\ ~mounted
  /\ \E start \in {[World EXCEPT !.mounted = TRUE]} :
       \E settled \in {Settle(TRUE, World, start)} : Commit(settled)

\* CapsuleSwitch onChange, lines 404-411
ClickSource(value) ==
  /\ mounted /\ Room
  /\ value # sourceType
  /\ Dispatch([World EXCEPT !.sourceType = value])

\* the buttons of lines 453-465, rendered when there are several sources
SelectEmbyKey(key) ==
  /\ mounted
  /\ sourceType = S_emby /\ Len(embySourceOptions) > 1
  /\ \E i \in DOMAIN embySourceOptions : embySourceOptions[i] = key
  /\ key # embyKey
  /\ Dispatch([World EXCEPT !.embyKey = key])

ClickEmbyKey(key) == Room /\ SelectEmbyKey(key)

\* the buttons of lines 493-515, rendered when the views are loaded
ClickView(view) ==
  /\ mounted /\ Room
  /\ sourceType = S_emby /\ ~loadingViews /\ embyViews # <<>>
  /\ view = "all" \/ \E i \in DOMAIN embyViews : embyViews[i] = view
  /\ view # selectedView
  /\ Dispatch([World EXCEPT !.selectedView = view])

\* ShouldLoadMore not looking at hasMore
ShouldLoadMoreAnyway == ~loadingMore /\ ~loading /\ ~isFetchingRef

\* line 373, for an entry that is intersecting: the observer is set up
\* again whenever hasMore, loadingMore or loading changes (line 388), so
\* its callback holds their present values
ShouldLoadMore == hasMore /\ ~loadingMore /\ ~loading /\ ~isFetchingRef

\* the callback of the IntersectionObserver, lines 369-376: the target
\* comes into view
Intersect ==
  /\ mounted /\ Room
  /\ observing
  /\ page < MaxPage
  /\ IF ShouldLoadMore
     THEN Dispatch([World EXCEPT !.page = @ + 1])
     ELSE UNCHANGED libVars

\* HasMoreData comparing the page asked for, not the page reported
HasMoreDataOfRequest(r, out) ==
  LET totalPages == IF out.totalPages # 0 THEN out.totalPages ELSE 1
  IN r.page < totalPages

\* lines 312-316
HasMoreData(r, out) ==
  LET currentPage == IF out.dataPage # 0 THEN out.dataPage ELSE r.page
      totalPages == IF out.totalPages # 0 THEN out.totalPages ELSE 1
  IN currentPage < totalPages

\* NextVideos replacing the list on every page
NextVideosReplace(isInitial, prev, newVideos) == newVideos

\* lines 303-310: page 1 replaces the list, a later page is appended
NextVideos(isInitial, prev, newVideos) ==
  IF isInitial THEN newVideos ELSE prev \o newVideos

\* VideosOnError emptying the list for every page
VideosOnErrorCleared(isInitial, prev) == <<>>

\* lines 294-296 and 325-327: a failed page 1 empties the list
VideosOnError(isInitial, prev) == IF isInitial THEN <<>> ELSE prev

\* the finally of fetchVideos, lines 328-338, for a request not cancelled
FetchFinally(isInitial, w) ==
  [w EXCEPT !.loading = IF isInitial THEN FALSE ELSE @,
            !.loadingMore = IF isInitial THEN @ ELSE FALSE,
            !.isFetchingRef = FALSE]

\* OnAbort handling the AbortError as any other error
OnAbortAsFailure(isInitial, w) ==
  FetchFinally(isInitial,
    [w EXCEPT !.error = "FetchFailed",
              !.videos = VideosOnError(isInitial, @),
              !.lastApplied.cancelledLast = TRUE])

\* lines 320-322 and 330: the fetch of a cancelled request rejects with an
\* AbortError, the catch returns and the finally leaves the flags alone
\* (history: a cancelled request has completed)
OnAbort(isInitial, w) == [w EXCEPT !.lastApplied.cancelledLast = TRUE]

\* fetchVideos from its first await on, lines 290-338
FetchVideosResume(r, out, w) ==
  LET isInitial == r.page = 1
      applied == [w EXCEPT !.lastApplied =
                    [applied |-> TRUE, superseded |-> r.superseded,
                     aborted |-> r.aborted, cancelledLast |-> FALSE]]
  IN IF r.aborted THEN OnAbort(isInitial, w)
     ELSE IF out.kind = "fail"
       THEN FetchFinally(isInitial,
              [applied EXCEPT !.error = "FetchFailed",
                              !.videos = VideosOnError(isInitial, @)])
     ELSE IF out.kind = "error"
       THEN FetchFinally(isInitial,
              [applied EXCEPT !.error = "DataError",
                              !.videos = VideosOnError(isInitial, @)])
     ELSE LET newVideos == ItemsOf(r, out.n)
              entry == [page |-> r.page, list |-> newVideos]
          IN FetchFinally(isInitial,
               [applied EXCEPT
                  !.videos = NextVideos(isInitial, @, newVideos),
                  !.hasMore = HasMoreData(r, out),
                  !.fetchLog = IF isInitial THEN <<entry>>
                               ELSE Append(@, entry)])

\* a list request is answered, or rejects because it was cancelled
ListResponse(r, out) ==
  /\ r \in listReqs
  /\ Dispatch(FetchVideosResume(r, out,
                                [World EXCEPT !.listReqs = @ \ {r}]))

\* FetchEmbySourcesResume without the default selection
FetchEmbySourcesResumeNoDefault(r, ok, sources, w) ==
  IF ~ok THEN w
  ELSE [w EXCEPT !.embySourceOptions = sources]

\* fetchEmbySources after its await, lines 112-123
FetchEmbySourcesResume(r, ok, sources, w) ==
  IF ~ok THEN w
  ELSE [w EXCEPT !.embySourceOptions = sources,
                 !.embyKey = IF r.noEmbyKey /\ Len(sources) > 0
                             THEN sources[1] ELSE @]

SourcesResponse(r, ok, sources) ==
  /\ r \in sourcesReqs
  /\ Dispatch(FetchEmbySourcesResume(r, ok, sources,
                                     [World EXCEPT !.sourcesReqs = @ \ {r}]))

\* RestoredAfter leaving the ref as it was
RestoredAfterUnset(ref) == ref

\* line 205: hasRestoredViewRef.current = true
RestoredAfter(ref) == TRUE

\* fetchEmbyViews after its awaits, lines 187-213
FetchEmbyViewsResume(r, kind, w) ==
  LET views == ViewsOf(r.embyKey)
      done == [w EXCEPT !.loadingViews = FALSE]
      loaded == [done EXCEPT !.embyViews = views, !.viewsSucceeded = TRUE]
  IN IF kind # "ok" THEN [done EXCEPT !.embyViews = <<>>]
     ELSE IF w.hasRestoredViewRef THEN loaded
     ELSE [loaded EXCEPT
             !.selectedView =
               IF r.urlView # NoView
                  /\ \E i \in DOMAIN views : views[i] = r.urlView
               THEN r.urlView ELSE @,
             !.hasRestoredViewRef = RestoredAfter(@)]

ViewsResponse(r, kind) ==
  /\ r \in viewsReqs
  /\ Dispatch(FetchEmbyViewsResume(r, kind,
                                   [World EXCEPT !.viewsReqs = @ \ {r}]))

\* the navigation of router.replace completes: useSearchParams changes
UrlCommit ==
  /\ pendingUrl.set
  /\ Dispatch([World EXCEPT
                 !.searchParams = [source |-> pendingUrl.source,
                                   view |-> pendingUrl.view],
                 !.pendingUrl = NoUrl])

LibNext ==
  \/ Mount
  \/ \E value \in {S_openlist, S_emby} : ClickSource(value)
  \/ \E key \in {Key1, Key2} : ClickEmbyKey(key)
  \/ \E view \in {"all", "v1", "v2"} : ClickView(view)
  \/ Intersect
  \/ \E r \in listReqs : \E out \in ListOutcomes(r) : ListResponse(r, out)
  \/ \E r \in sourcesReqs : \E ok \in BOOLEAN, sources \in SourceLists :
       SourcesResponse(r, ok, sources)
  \/ \E r \in viewsReqs : \E kind \in {"ok", "error", "throw"} :
       ViewsResponse(r, kind)
  \/ UrlCommit

(***************************************************************************)
(* Part III: src/components/DanmakuFilterSettings.tsx, the panel that      *)
(* edits the rules.  A rule is held as the service returns it: a keyword,  *)
(* a type, enabled, and an id that may be missing.  An id is the decimal   *)
(* text of a number; n stands for that text.                               *)
(***************************************************************************)
MaxShown == 2     \* rules the panel holds
MaxLoaded == 1    \* rules in a config the panel loads
MaxNow == 1       \* readings of Date.now()
MaxLoads == 1     \* calls of getDanmakuFilterConfig in flight

VARIABLES
  isOpen,           \* the prop of the panel
  config,           \* useState: config.rules
  newKeyword,       \* useState: the text of the input
  settingsLoading,  \* useState: loading
  loadReqs,         \* calls of getDanmakuFilterConfig in flight
  now,              \* the last reading of Date.now()
  lastClick         \* history: the button pressed last, and on which rule

setVars ==
  <<isOpen, config, newKeyword, settingsLoading, loadReqs, now, lastClick>>

NoId == [present |-> FALSE, n |-> 0]
IdOf(n) == [present |-> TRUE, n |-> n]
NoClick == [button |-> "none", index |-> 0]

\* the rules a stored config holds (route.ts lines 80-85): the id is the
\* one the writer sent, or none
ShownRules ==
  [keyword : {<<"x">>}, type : {"normal"}, enabled : BOOLEAN,
   id : {NoId} \cup {IdOf(n) : n \in 1..MaxNow}]

LoadedConfigs ==
  UNION {[1..n -> ShownRules] : n \in 0..MaxLoaded}

\* what is typed into the input
KeywordInputs == {<<>>, <<" ">>, <<"x">>, <<" ", "x">>}

\* String.prototype.trim
RECURSIVE trim(_)
trim(str) ==
  IF str = <<>> THEN str
  ELSE IF Head(str) = " " THEN trim(Tail(str))
  ELSE IF str[Len(str)] = " " THEN trim(SubSeq(str, 1, Len(str) - 1))
  ELSE str

\* `!id` of lines 88 and 96: no id, or the empty text (no number has it)
NoIdGiven(id) == ~id.present

\* lines 28-32: the effect on isOpen
Open ==
  /\ ~isOpen
  /\ loadReqs < MaxLoads
  /\ isOpen' = TRUE
  /\ settingsLoading' = TRUE
  /\ loadReqs' = loadReqs + 1
  /\ lastClick' = NoClick
  /\ UNCHANGED <<config, newKeyword, now>>

\* onClose: the parent closes the panel, which keeps its state
Close ==
  /\ isOpen
  /\ isOpen' = FALSE
  /\ lastClick' = NoClick
  /\ UNCHANGED <<config, newKeyword, settingsLoading, loadReqs, now>>

\* loadConfig after its await, lines 36-46: a config, null, or a throw
loadConfig(kind, loadedConfig) ==
  /\ loadReqs > 0
  /\ loadReqs' = loadReqs - 1
  /\ config' = IF kind = "config" THEN loadedConfig
               ELSE IF kind = "null" THEN <<>> ELSE config
  /\ settingsLoading' = FALSE
  /\ lastClick' = NoClick
  /\ UNCHANGED <<isOpen, newKeyword, now>>

\* the input's onChange, line 129
Type(text) ==
  /\ isOpen
  /\ newKeyword' = text
  /\ lastClick' = NoClick
  /\ UNCHANGED <<isOpen, config, settingsLoading, loadReqs, now>>

\* lines 73-82: the rule appended, its id the reading t of Date.now()
handleAddRule(rules, keyword, t) ==
  rules \o <<[keyword |-> trim(keyword), type |-> "normal",
              enabled |-> TRUE, id |-> IdOf(t)]>>

\* the Add button, lines 67-85; the clock does not run backwards
AddRule ==
  /\ isOpen
  /\ Len(config) < MaxShown
  /\ lastClick' = [button |-> "add", index |-> 0]
  /\ IF trim(newKeyword) = <<>>
     THEN UNCHANGED <<isOpen, config, newKeyword, settingsLoading, loadReqs,
                      now>>
     ELSE /\ \E t \in now..MaxNow :
               /\ t > 0
               /\ now' = t
               /\ config' = handleAddRule(config, newKeyword, t)
          /\ newKeyword' = <<>>
          /\ UNCHANGED <<isOpen, settingsLoading, loadReqs>>

\* lines 88-93
handleDeleteRule(id, rules) ==
  IF NoIdGiven(id) THEN rules
  ELSE SelectSeq(rules, LAMBDA r : r.id # id)

\* lines 96-103
handleToggleRule(id, rules) ==
  IF NoIdGiven(id) THEN rules
  ELSE [i \in DOMAIN rules |->
          IF rules[i].id = id THEN [rules[i] EXCEPT !.enabled = ~@]
          ELSE rules[i]]

\* the list is rendered when the panel is open and not loading, line 161
ListShown == isOpen /\ ~settingsLoading

\* the delete button of the i-th rule, line 211
ClickDelete(i) ==
  /\ ListShown /\ i \in DOMAIN config
  /\ config' = handleDeleteRule(config[i].id, config)
  /\ lastClick' = [button |-> "delete", index |-> i]
  /\ UNCHANGED <<isOpen, newKeyword, settingsLoading, loadReqs, now>>

\* the toggle button of the i-th rule, line 176
ClickToggle(i) ==
  /\ ListShown /\ i \in DOMAIN config
  /\ config' = handleToggleRule(config[i].id, config)
  /\ lastClick' = [button |-> "toggle", index |-> i]
  /\ UNCHANGED <<isOpen, newKeyword, settingsLoading, loadReqs, now>>

SetInit ==
  /\ isOpen = FALSE
  /\ config = <<>>
  /\ newKeyword = <<>>
  /\ settingsLoading = FALSE
  /\ loadReqs = 0
  /\ now = 0
  /\ lastClick = NoClick

SetNext ==
  \/ Open
  \/ Close
  \/ \E kind \in {"config", "null", "throw"} :
       \E loadedConfig \in LoadedConfigs : loadConfig(kind, loadedConfig)
  \/ \E text \in KeywordInputs : Type(text)
  \/ AddRule
  \/ \E i \in 1..MaxShown : ClickDelete(i)
  \/ \E i \in 1..MaxShown : ClickToggle(i)

(***************************************************************************)
(* Specifications.                                                         *)
(***************************************************************************)
vars == <<svcVars, normVars, parseVars, libVars, setVars>>

\* the panel never opened
SetIdle == SetInit

\* the page not opened
LibIdle ==
  /\ runtimeConfig = [OPENLIST_ENABLED |-> FALSE, EMBY_ENABLED |-> FALSE]
  /\ searchParams = [source |-> <<>>, view |-> NoView]
  /\ pendingUrl = NoUrl
  /\ mounted = FALSE
  /\ sourceType = S_openlist
  /\ embyKey = NoKey
  /\ embySourceOptions = <<>>
  /\ videos = <<>>
  /\ loading = TRUE
  /\ loadingMore = FALSE
  /\ error = ""
  /\ page = 1
  /\ hasMore = TRUE
  /\ embyViews = <<>>
  /\ selectedView = "all"
  /\ loadingViews = FALSE
  /\ isFetchingRef = FALSE
  /\ isInitializedRef = FALSE
  /\ hasRestoredViewRef = FALSE
  /\ observing = FALSE
  /\ listReqs = {}
  /\ sourcesReqs = {}
  /\ viewsReqs = {}
  /\ fetchLog = <<>>
  /\ lastApplied = NothingApplied
  /\ viewsSucceeded = FALSE

SvcIdle ==
  /\ Users = <<>>
  /\ ADMIN_USERNAME = "admin"
  /\ db = [u \in SessionNames |-> NoConfig]
  /\ req = [method |-> "none", authInfo |-> NoAuthInfo, body |-> NoBody]
  /\ resp = NoResponse
  /\ dbCalls = <<>>
  /\ lastPost = [u \in SessionNames |-> [posted |-> FALSE, rules |-> <<>>]]

FilterInit == SvcInit /\ NormIdle /\ ParseIdle /\ LibIdle /\ SetIdle
FilterNext == SvcNext /\ UNCHANGED <<normVars, parseVars, libVars, setVars>>
FilterSpec == FilterInit /\ [][FilterNext]_vars

NormSpecInit == NormInit /\ SvcIdle /\ ParseIdle /\ LibIdle /\ SetIdle
NormSpecNext == NormNext /\ UNCHANGED <<svcVars, parseVars, libVars, setVars>>
NormSpec == NormSpecInit /\ [][NormSpecNext]_vars

LibraryInit == LibInit /\ SvcIdle /\ NormIdle /\ ParseIdle /\ SetIdle
\* what the page leaves alone
otherVars == <<svcVars, normVars, parseVars, setVars>>

LibraryNext == LibNext /\ UNCHANGED otherVars
LibrarySpec == LibraryInit /\ [][LibraryNext]_vars

ParseSpecInit == ParseInit /\ SvcIdle /\ NormIdle /\ LibIdle /\ SetIdle
ParseSpecNext == ParseNext /\ UNCHANGED <<svcVars, normVars, libVars, setVars>>
ParseSpec == ParseSpecInit /\ [][ParseSpecNext]_vars

SettingsInit == SetInit /\ SvcIdle /\ NormIdle /\ ParseIdle /\ LibIdle
SettingsNext == SetNext /\ UNCHANGED <<svcVars, normVars, parseVars, libVars>>
SettingsSpec == SettingsInit /\ [][SettingsNext]_vars

(***************************************************************************)
(* The first load with OpenList disabled, Emby enabled with two sources    *)
(* and no source parameter in the URL: the sources fetch succeeds.  The    *)
(* page is opened, a navigation completes and a fetch is answered at some  *)
(* time.                                                                   *)
(***************************************************************************)
FirstLoadInit ==
  /\ LibInit /\ SvcIdle /\ NormIdle /\ ParseIdle /\ SetIdle
  /\ runtimeConfig = [OPENLIST_ENABLED |-> FALSE, EMBY_ENABLED |-> TRUE]
  /\ searchParams = [source |-> <<>>, view |-> NoView]

SourcesOk ==
  \E r \in sourcesReqs : SourcesResponse(r, TRUE, <<Key1, Key2>>)

FirstLoadNext ==
  /\ \/ Mount
     \/ \E value \in {S_openlist, S_emby} : ClickSource(value)
     \/ \E k \in {Key1, Key2} : ClickEmbyKey(k)
     \/ \E view \in {"all", "v1", "v2"} : ClickView(view)
     \/ Intersect
     \/ \E r \in listReqs : \E out \in ListOutcomes(r) : ListResponse(r, out)
     \/ SourcesOk
     \/ \E r \in viewsReqs : \E kind \in {"ok", "error", "throw"} :
          ViewsResponse(r, kind)
     \/ UrlCommit
  /\ UNCHANGED otherVars

FirstLoadSpec ==
  /\ FirstLoadInit /\ [][FirstLoadNext]_vars
  /\ WF_vars(Mount /\ UNCHANGED otherVars)
  /\ WF_vars(SourcesOk /\ UNCHANGED otherVars)
  /\ WF_vars(UrlCommit /\ UNCHANGED otherVars)

(***************************************************************************)
(* The selection and the URL, with OpenList and Emby both enabled: the     *)
(* user changes the source, the instance and the category, and a           *)
(* navigation asked of the router completes at some time.                  *)
(***************************************************************************)
BothEnabled == runtimeConfig.OPENLIST_ENABLED /\ runtimeConfig.EMBY_ENABLED

SyncInit ==
  /\ LibInit /\ SvcIdle /\ NormIdle /\ ParseIdle /\ SetIdle
  /\ BothEnabled

SyncNext ==
  /\ \/ Mount
     \/ \E value \in {S_openlist, S_emby} : ClickSource(value)
     \/ \E key \in {Key1, Key2} : ClickEmbyKey(key)
     \/ \E view \in {"all", "v1", "v2"} : ClickView(view)
     \/ \E r \in listReqs : \E out \in ListOutcomes(r) : ListResponse(r, out)
     \/ \E r \in sourcesReqs : \E ok \in BOOLEAN, sources \in SourceLists :
          SourcesResponse(r, ok, sources)
     \/ \E r \in viewsReqs : \E kind \in {"ok", "error", "throw"} :
          ViewsResponse(r, kind)
     \/ UrlCommit
  /\ UNCHANGED otherVars

SyncSpec ==
  /\ SyncInit /\ [][SyncNext]_vars
  /\ WF_vars(UrlCommit /\ UNCHANGED otherVars)

(***************************************************************************)
(* Switching between Emby instances while the categories are being        *)
(* fetched: the page is opened on Emby with two sources, and the user      *)
(* presses the buttons of the instances at any time.                       *)
(***************************************************************************)
ViewsRaceInit ==
  /\ LibInit /\ SvcIdle /\ NormIdle /\ ParseIdle /\ SetIdle
  /\ runtimeConfig.EMBY_ENABLED
  /\ searchParams \in {u \in Urls : u.source # <<>> /\ u.source[1] = "e"}

ViewsRaceNext ==
  /\ \/ Mount
     \/ SourcesOk
     \/ \E key \in {Key1, Key2} : SelectEmbyKey(key)
     \/ \E r \in listReqs : \E out \in ListOutcomes(r) : ListResponse(r, out)
     \/ \E r \in viewsReqs : \E kind \in {"ok", "error", "throw"} :
          ViewsResponse(r, kind)
     \/ UrlCommit
  /\ UNCHANGED otherVars

ViewsRaceSpec == ViewsRaceInit /\ [][ViewsRaceNext]_vars

(***************************************************************************)
(* Properties of the filter config service.                                *)
(***************************************************************************)
\* the caller of the request being answered, in the words of the contract
Caller == req.authInfo
Unauthenticated == ~Caller.present \/ Caller.username = ""
IsAdmin == ~Unauthenticated /\ Caller.username = ADMIN_USERNAME
Listed == \E i \in DOMAIN Users : Users[i].username = Caller.username
ListedBanned ==
  \E i \in DOMAIN Users :
    Users[i].username = Caller.username /\ Users[i].banned
Rejected == Unauthenticated \/ (~IsAdmin /\ (~Listed \/ ListedBanned))
Answered == req.method \in {"GET", "POST"}

\* C1: a GET or POST by a caller with no session, or by a non-admin who is
\* absent from the user list or banned, is answered 401 and makes no call
\* to the store, neither a read nor a write.
C1_RejectedBeforeStorage ==
  (Answered /\ Rejected) => (resp.status = 401 /\ dbCalls = <<>>)

C1_Witness ==
  /\ req.method = "POST"
  /\ ~Unauthenticated /\ ListedBanned /\ ~IsAdmin
  /\ req.body.rules.t = "array" /\ Len(req.body.rules.elems) = 1
  /\ resp.status = 401
  /\ \E u \in SessionNames : db[u].present

\* C2: GET and POST enforce the same policy: a GET is answered 401, with
\* the same error, exactly when the gate of POST rejects its caller, a POST
\* exactly when the gate of GET rejects its caller; the admin is let
\* through by both whatever the user list says of it.
C2_SameGate ==
  /\ req.method = "GET" =>
       /\ (resp.status = 401) <=> (POSTGate(Caller) # "pass")
       /\ resp.status = 401 => resp.error = POSTGate(Caller)
  /\ req.method = "POST" =>
       /\ (resp.status = 401) <=> (GETGate(Caller) # "pass")
       /\ resp.status = 401 => resp.error = GETGate(Caller)
  /\ (Answered /\ IsAdmin) => resp.status # 401

C2_Witness ==
  /\ req.method = "GET"
  /\ IsAdmin /\ ListedBanned
  /\ resp.status = 200

\* C3: a GET answered 200 returns the normalized rules of the caller's
\* last POST answered 200, in their order, and nothing of earlier POSTs;
\* after POST {rules:[{keyword:"ad", type:"regex", enabled:true}]} it
\* returns exactly that one rule.
C3_GetReturnsLastPost ==
  (req.method = "GET" /\ resp.status = 200) =>
    LET last == lastPost[Caller.username]
    IN /\ resp.hasRules
       /\ resp.rules =
            (IF last.posted THEN validatedRules(last.rules) ELSE <<>>)
       /\ (last.posted /\ last.rules =
              <<RuleObj(JStr("ad"), JStr("regex"), JBool(TRUE), JUndef)>>)
            => resp.rules = <<[keyword |-> "ad", type |-> "regex",
                               enabled |-> TRUE, id |-> JUndef]>>

C3_Witness ==
  /\ req.method = "GET" /\ resp.status = 200
  /\ Caller.username = "alice"
  /\ lastPost["alice"].rules =
       <<RuleObj(JStr("ad"), JStr("regex"), JBool(TRUE), JUndef)>>
  /\ Len(resp.rules) = 1
  /\ db["admin"].present /\ Len(db["admin"].rules) = 2

\* C4: a GET by an authorized caller who has no stored config is answered
\* 200 with {rules: []}.
C4_NoConfigIsEmpty ==
  (req.method = "GET" /\ ~Rejected /\ ~db[Caller.username].present) =>
    resp = JsonRules(<<>>)

C4_Witness ==
  /\ req.method = "GET" /\ ~Rejected /\ ~IsAdmin
  /\ ~db[Caller.username].present
  /\ resp.status = 200

\* the body of the request parsed, and its `rules` is missing or no array
RulesNotASequence ==
  req.body.parses /\ (req.body.v.t # "object" \/ req.body.rules.t # "array")

\* C5: a POST by an authorized caller whose body has no `rules`, or a
\* `rules` that is no array (a null body included), is answered 400 and
\* leaves every stored config as it was.
C5_MalformedRejected ==
  [][(req'.method = "POST" /\ ~Rejected' /\ RulesNotASequence')
       => (resp'.status = 400 /\ db' = db /\ dbCalls' = <<>>)]_vars

C5_Witness ==
  /\ req.method = "POST" /\ ~Rejected /\ RulesNotASequence
  /\ req.body.v = JNull
  /\ resp.status = 400
  /\ db[Caller.username].present

\* C6 (as claimed): a POST by an authorized caller whose `rules` is an
\* array is answered 200 {success:true} whatever the shape of its elements,
\* null ones included, and the store then holds one rule per element.
C6_NeverRejectedForShape ==
  (req.method = "POST" /\ ~Rejected /\ req.body.parses
     /\ req.body.v.t = "object" /\ req.body.rules.t = "array") =>
    /\ resp = JsonSuccess
    /\ db[Caller.username].present
    /\ Len(db[Caller.username].rules) = Len(req.body.rules.elems)

C8_StoredRulesWellFormed ==
  /\ \A u \in SessionNames : \A i \in DOMAIN db[u].rules :
       /\ db[u].rules[i].type \in {"normal", "regex"}
       /\ db[u].rules[i].keyword \in STRING
       /\ db[u].rules[i].enabled \in BOOLEAN
  /\ (req.method = "POST" /\ resp.status = 200) =>
       \A i \in DOMAIN req.body.rules.elems :
         LET ty == Prop(req.body.rules.elems[i], "type")
         IN db[Caller.username].rules[i].type =
              (IF ty \in {JStr("regex"), JStr("normal")} THEN ty.s
               ELSE "normal")

C8_Witness ==
  /\ req.method = "POST" /\ resp.status = 200
  /\ \E i \in DOMAIN req.body.rules.elems :
       /\ Prop(req.body.rules.elems[i], "type") = JStr("other")
       /\ db[Caller.username].rules[i].type = "normal"

\* the items of the pages applied since the last reset, in the order applied
RECURSIVE Concat(_)
Concat(log) ==
  IF log = <<>> THEN <<>>
  ELSE Concat(SubSeq(log, 1, Len(log) - 1)) \o log[Len(log)].list

\* C9: a list response that is applied (to the items, hasMore or the error)
\* is never that of a request superseded by a later call of fetchVideos,
\* whatever the order the responses arrive in; so every item shown was
\* fetched for the source, instance and view now selected.
C9_SupersededNeverApplied ==
  /\ lastApplied.applied => ~lastApplied.superseded /\ ~lastApplied.aborted
  /\ \A r \in listReqs : r.superseded => r.aborted
  /\ \A i \in DOMAIN videos :
       /\ videos[i].sourceType = sourceType
       /\ videos[i].embyKey = embyKey
       /\ videos[i].selectedView = selectedView

\* the newer of two list fetches was answered first and its items are shown
\* while the superseded one is still in flight
C9_Witness ==
  /\ listReqs # {}
  /\ \A r \in listReqs : r.superseded /\ r.aborted
  /\ lastApplied.applied /\ ~isFetchingRef
  /\ videos # <<>>

\* C10: when the pages applied since the last reset are 1..N, the items
\* are those of page 1, then page 2, ... then page N: as many as the pages
\* hold together, none twice.
C10_PagesConcatenated ==
  (\A i \in DOMAIN fetchLog : fetchLog[i].page = i) =>
    /\ videos = Concat(fetchLog)
    /\ \A i, j \in DOMAIN videos : i # j => videos[i] # videos[j]
    /\ \A i \in DOMAIN videos :
         \E k \in DOMAIN fetchLog : videos[i].page = k
    /\ \A i, j \in DOMAIN videos :
         i < j => videos[i].page <= videos[j].page

C10_Witness ==
  /\ Len(fetchLog) = MaxPage
  /\ \A i \in DOMAIN fetchLog :
       fetchLog[i].page = i /\ fetchLog[i].list # <<>>
  /\ Len(videos) = MaxPage * MaxItems

\* C11: a list response that is applied and reports its page and the total
\* number of pages leaves hasMore true exactly when the page reported is
\* less than the total reported.  (A step that is not the response has
\* nothing to show: P /\ Step => Q is written P => Q \/ ~Step.)
C11_HasMoreIffPageBelowTotal ==
  [][\A r \in listReqs : \A out \in ListOutcomes(r) :
       (/\ ~r.aborted /\ out.kind = "ok"
        /\ out.dataPage # 0 /\ out.totalPages # 0)
         => \/ hasMore' = (out.dataPage < out.totalPages)
            \/ ~ListResponse(r, out)]_vars

\* a page was applied and no more pages remain
C11_Witness ==
  /\ lastApplied.applied /\ fetchLog # <<>> /\ videos # <<>>
  /\ ~isFetchingRef /\ ~hasMore

\* OpenList is disabled and Emby enabled
ForcedEmby ==
  ~runtimeConfig.OPENLIST_ENABLED /\ runtimeConfig.EMBY_ENABLED

\* C12 (as claimed): once the page is opened with OpenList disabled and
\* Emby enabled, sourceType is 'emby' in every state, whatever the URL and
\* whatever the user clicked.
C12_ForcedEmbyAlways ==
  (mounted /\ ForcedEmby) => sourceType = S_emby

\* C13 (as claimed): for a non-empty key k without a colon, both emby:k
\* and emby_k parse to sourceType 'emby' with embyKey k.
C13_BothEncodingsParsed ==
  (parsePc = "parsed" /\ keyIn # <<>> /\ ~Includes(keyIn, ":")) =>
    parsedOut = [sourceType |-> S_emby, embyKey |-> keyIn]

\* C14: a non-empty key k without a colon, encoded as emby:k and parsed,
\* gives sourceType 'emby' and embyKey k.
C14_NavRoundTrip ==
  (parsePc = "parsed" /\ encoding = "nav"
     /\ keyIn # <<>> /\ ~Includes(keyIn, ":")) =>
    parsedOut = [sourceType |-> S_emby, embyKey |-> keyIn]

C14_Witness ==
  /\ parsePc = "parsed" /\ encoding = "nav"
  /\ keyIn = <<"k", "_">>
  /\ sourceParam = <<"e", "m", "b", "y", ":", "k", "_">>
  /\ parsedOut.embyKey = keyIn

\* C15: a sources fetch started with no embyKey selected that succeeds
\* with a non-empty list leaves embyKey the key of the first source; and
\* the first load with OpenList disabled, Emby enabled with two sources and
\* no source parameter reaches sourceType 'emby' with the first key.
C15_FirstSourceSelected ==
  /\ [][\A r \in sourcesReqs :
          (r.noEmbyKey /\ SourcesResponse(r, TRUE, <<Key1, Key2>>))
            => embyKey' = Key1]_vars
  /\ <>(sourceType = S_emby /\ embyKey = Key1)

\* the sources have arrived and the first is selected
C15_Witness ==
  /\ ForcedEmby /\ searchParams.source = <<>>
  /\ sourceType = S_emby /\ embyKey = Key1
  /\ embySourceOptions = <<Key1, Key2>>
  /\ sourcesReqs = {}

\* C16: at most one list request in flight is not cancelled, it is the
\* one of the last call of fetchVideos, and the response applied last was
\* not that of a request an earlier call had issued.
C16_OneLiveRequest ==
  /\ Cardinality({r \in listReqs : ~r.aborted}) <= 1
  /\ \A r \in listReqs : ~r.aborted => r.current /\ ~r.superseded
  /\ lastApplied.applied => ~lastApplied.superseded

\* a request in flight next to the cancelled one it replaced
C16_Witness ==
  /\ AbortedRequest \in listReqs
  /\ \E r \in listReqs : ~r.aborted /\ r.current /\ r.page = 1
  /\ isFetchingRef /\ loading

\* the list is as after a reset, and the requests that were in flight are
\* cancelled
ListReset ==
  /\ page' = 1 /\ videos' = <<>> /\ hasMore' = TRUE /\ error' = ""
  /\ \A r \in listReqs : ~r.aborted => r \notin listReqs'

\* C17: once initialized, a step that changes sourceType or embyKey leaves
\* page 1, no items, hasMore true, no error, selectedView 'all' and the
\* list request that was in flight cancelled; a step that changes
\* selectedView only leaves the same but for selectedView.
C17_ChangeResets ==
  [][isInitializedRef =>
       /\ (sourceType' # sourceType \/ embyKey' # embyKey)
             => ListReset /\ selectedView' = "all"
       /\ (selectedView' # selectedView
             /\ sourceType' = sourceType /\ embyKey' = embyKey)
             => ListReset]_vars

\* the user left Emby for OpenList while a list request was in flight: the
\* list is reset and the request cancelled
C17_Witness ==
  /\ isInitializedRef /\ runtimeConfig.OPENLIST_ENABLED
  /\ searchParams.source = S_emby /\ sourceType = S_openlist
  /\ AbortedRequest \in listReqs
  /\ page = 1 /\ videos = <<>> /\ hasMore /\ error = ""
  /\ selectedView = "all"

\* C18: an intersection raises page by one when hasMore holds and
\* loading, loadingMore and isFetchingRef are all false, and leaves page as
\* it is otherwise; page never grows in another way, and when it has grown
\* a fetch is pending.
C18_OnePagePerFetch ==
  [][/\ Intersect =>
          (IF hasMore /\ ~loading /\ ~loadingMore /\ ~isFetchingRef
           THEN page' = page + 1 ELSE page' = page)
     /\ page' > page =>
          /\ page' = page + 1
          /\ hasMore /\ ~loading /\ ~loadingMore /\ ~isFetchingRef
          /\ isFetchingRef' /\ loadingMore'
          /\ \E r \in listReqs' : ~r.aborted /\ r.page = page']_vars

\* the second page is being fetched
C18_Witness ==
  /\ page = 2 /\ videos # <<>> /\ fetchLog # <<>>
  /\ isFetchingRef /\ loadingMore /\ ~loading
  /\ \E r \in listReqs : ~r.aborted /\ r.page = 2

\* C19: a list request that is not cancelled and is answered by a
\* data.error, a status that is not OK or a transport error leaves the
\* error message non-empty, and the items none for page 1, as they were for
\* a later page.
C19_FailureKeepsLaterPages ==
  [][\A r \in listReqs : \A out \in ListOutcomes(r) :
       (~r.aborted /\ out.kind \in {"error", "fail"})
         => \/ /\ error' # ""
               /\ videos' = (IF r.page = 1 THEN <<>> ELSE videos)
            \/ ~ListResponse(r, out)]_vars

\* a later page failed and the items of the pages before it are kept
C19_Witness ==
  /\ error # "" /\ page >= 2 /\ videos # <<>>
  /\ ~isFetchingRef /\ ~loadingMore
  /\ lastApplied.applied

\* C20: the completion of a cancelled list request changes neither the
\* error message nor the items, hasMore, loading or loadingMore.
C20_CancelledIsNoOp ==
  [][\A r \in listReqs : \A out \in ListOutcomes(r) :
       r.aborted
         => \/ UNCHANGED <<error, videos, hasMore, loading, loadingMore>>
            \/ ~ListResponse(r, out)]_vars

\* a cancelled request has just completed, after the items of its successor
\* were applied
C20_Witness ==
  /\ lastApplied.applied /\ lastApplied.cancelledLast
  /\ videos # <<>> /\ error = "" /\ listReqs = {}

\* C21: the answer to a views fetch changes selectedView only when no
\* views fetch has succeeded before, the answer is a success, and the
\* `view` parameter the fetch holds is among the categories returned, and
\* then selectedView becomes that id; the ref set by the first success is
\* never unset.
C21_RestoreOnce ==
  [][/\ \A r \in viewsReqs : \A kind \in {"ok", "error", "throw"} :
          \/ selectedView' = selectedView
          \/ /\ ~viewsSucceeded /\ kind = "ok"
             /\ r.urlView # NoView /\ selectedView' = r.urlView
             /\ \E i \in DOMAIN ViewsOf(r.embyKey) :
                  ViewsOf(r.embyKey)[i] = r.urlView
          \/ ~ViewsResponse(r, kind)
     /\ hasRestoredViewRef => hasRestoredViewRef'
     /\ viewsSucceeded' => hasRestoredViewRef']_vars

\* after a first success, the categories of another instance arrived with
\* the `view` parameter of the URL among them, and no view was restored
C21_Witness ==
  /\ viewsSucceeded /\ hasRestoredViewRef
  /\ searchParams = [source |-> NavSource(Key2), view |-> "v2"]
  /\ embyKey = Key1 /\ embyViews = <<"v1", "v2">>
  /\ viewsReqs = {} /\ ~loadingViews
  /\ selectedView = "all"

\* C22: when the page is opened with a URL that names a source other than
\* the default, or with OpenList disabled and Emby enabled, the effects of
\* the first render, which still holds the defaults of useState, do not
\* hand router.replace the URL of these defaults.
C22_GatedUntilApplied ==
  [][~mounted /\ mounted' =>
       \E first \in {Flush(TRUE, World, [World EXCEPT !.mounted = TRUE])} :
         \/ ~ForcedEmby
            /\ parseSourceParam(searchParams.source).sourceType
                  \in {<<>>, S_openlist}
         \/ first.pendingUrl # UrlOf(World)]_vars

\* C24: while the page is open and every list request in flight is a
\* cancelled one, loading and loadingMore are both false.
C24_FlagsNotStuck ==
  mounted /\ (\A r \in listReqs : r.aborted) => ~loading /\ ~loadingMore

\* C25: the pages whose items were put in the list since it was last
\* emptied are pages 1, 2, ... k in this order, and a page asked for is
\* at most the one after the last of them.
C25_NoPageSkipped ==
  /\ \A i \in DOMAIN fetchLog : fetchLog[i].page = i
  /\ \A r \in listReqs : ~r.aborted => r.page <= Len(fetchLog) + 1

\* C26: the answer to a views fetch made for an instance that is no
\* longer the selected one changes neither embyViews nor selectedView.
C26_StaleViewsDropped ==
  [][\A r \in viewsReqs : \A kind \in {"ok", "error", "throw"} :
       \/ r.embyKey = embyKey
       \/ embyViews' = embyViews /\ selectedView' = selectedView
       \/ ~ViewsResponse(r, kind)]_vars

\* C27: with OpenList and Emby both enabled, the navigation that
\* completes hands the init effect the URL written from the present
\* selection: the step changes neither sourceType nor embyKey nor
\* selectedView, leaves no navigation pending, and leaves the URL the one
\* that the URL sync effect writes for this selection; and a URL handed to
\* router.replace leads to such a state.
UrlAgrees ==
  /\ ~pendingUrl.set
  /\ searchParams = [source |-> UrlOf(World).source,
                     view |-> UrlOf(World).view]

C27_UrlAndStateConverge ==
  /\ [][\/ /\ sourceType' = sourceType /\ embyKey' = embyKey
           /\ selectedView' = selectedView
           /\ UrlAgrees'
        \/ ~UrlCommit]_vars
  /\ pendingUrl.set ~> UrlAgrees

\* the user chose instance k1 and category v1, neither named by the URL the
\* page was opened with, and the navigation completed
C27_Witness ==
  /\ mounted /\ BothEnabled /\ ~pendingUrl.set
  /\ sourceType = S_emby /\ embyKey = Key1 /\ selectedView = "v1"
  /\ searchParams = [source |-> NavSource(Key1), view |-> "v1"]

(***************************************************************************)
(* Properties of the settings panel.                                       *)
(***************************************************************************)
\* C23: the toggle button of any rule in the list switches that rule's
\* enabled, and the delete button of any rule removes a rule from the
\* list, whether or not the rule came with an id.
C23_EveryRuleMutable ==
  [][/\ lastClick'.button = "toggle" =>
          config'[lastClick'.index].enabled # config[lastClick'.index].enabled
     /\ lastClick'.button = "delete" => Len(config') < Len(config)]_vars

====
